---------------------------- MODULE Spec2Model ----------------------------
(***************************************************************************)
(* A model of AlApiClient (src/unnamed/part_001): the endpoint resolver    *)
(* (prepare / getServiceEndpoints), the ephemeral cache it uses, reset,    *)
(* the retry engine (axiosRequest / isRetryableError) behind the response  *)
(* interceptor installed by getAxiosInstance, and the request methods      *)
(* get / post / put / delete / form over the cache and the retry engine.   *)
(*                                                                         *)
(* Conventions.                                                            *)
(*  - A service list (a JS array of names) is modelled as the set of its   *)
(*    members: the code only tests membership, appends absent names and    *)
(*    iterates over all members.                                           *)
(*  - A promise returned by getServiceEndpoints is a record of `lookups`;  *)
(*    endpointResolution maps an account id to the index of its promise.   *)
(*  - A suspended prepare() is a record of `calls`; its continuation after *)
(*    the await is the action PrepareResume.                               *)
(*  - A get / post / put / delete / form invocation is a record of `ops`.  *)
(*  - Fields named issuedAt, settledAt, creator, joined, fresh, early,     *)
(*    from, epoch, attempts, delays and outcomes are history: they record  *)
(*    what happened and are never read by the modelled code.  So is the    *)
(*    variable events.                                                     *)
(***************************************************************************)
EXTENDS Integers, Sequences, FiniteSets, TLC

VARIABLES
    now,                  \* the wall clock, in milliseconds
    storage,              \* AlCabinet.ephemeral: key -> [value, expires]
    defaultServiceList,   \* the static AlApiClient.defaultServiceList array
    endpointResolution,   \* accountId -> index into lookups
    lookups,              \* the promises made by getServiceEndpoints
    calls,                \* the prepare() invocations
    resets,               \* how many times reset() ran
    ticks,                \* how many times the clock was advanced
    requests,             \* the logical axiosRequest calls of the retry engine
    ops,                  \* the get / post / put / delete / form invocations
    events,               \* the cache operations made so far, in order
    globalServiceParams,  \* the default request parameters of the client
    normalizations        \* the normalizeRequest invocations

vars == << now, storage, defaultServiceList, endpointResolution, lookups,
           calls, resets, ticks, requests, ops, events,
           globalServiceParams, normalizations >>

---------------------------------------------------------------------------
(* Bounds of the model.                                                    *)

MaxCalls == 2

MaxLookups == 3

MaxResets == 1

MaxTicks == 1

MaxRequests == 1

MaxRetryCount == 3

MaxOps == 3

MaxInFlight == 1

MaxCacheOps == 2

MaxClock == 2000

MaxNormalizations == 1

---------------------------------------------------------------------------
(* Program constants.                                                      *)

\* 15 * 60 * 1000: the ttl of a discovered endpoint map
EndpointsTTL == 900000

\* 5 * 60 * 1000: the ttl of what the error branch caches
FallbackTTL == 300000

\* setCachedValue ignores ttl below this
MinCacheTTL == 1000

\* config.retry_interval ? config.retry_interval : 1000
DefaultRetryInterval == 1000

\* The initial contents of the static defaultServiceList
InitialServiceList ==
    { "aims", "subscriptions", "search", "sources", "assets_query",
      "assets_write", "dashboards", "iris", "suggestions", "cargo" }

\* AlLocatorService.resolveURL( AlLocation.InsightAPI )
InsightAPIURL == "https://api.cloudinsight.alertlogic.com"

\* public defaultAccountId:string = null
defaultAccountId == ""

---------------------------------------------------------------------------
(* Inputs.                                                                 *)

\* requestParams.account_id: "" stands for an absent (falsy) account id
AccountInputs == { "", "2" }

\* requestParams.service_name: a watch-list service and another one
ServiceInputs == { "aims", "herald" }

\* By how much the clock may jump: just past the fallback ttl, just past the
\* endpoints ttl
TickSizes == { FallbackTTL + 1, EndpointsTTL + 1 }

\* What the discovery service answers: hosts for every requested service
\* ("full") or only for those of the initial watch-list ("known").
DataShapes == { "full", "known" }

\* HTTP status codes the transport may answer with
Statuses == { 0, 200, 304, 404, 499, 503 }

\* A value of response.data: a body text, "" for an empty (falsy) one
Data(text) == [ kind |-> "data", text |-> text ]

\* A response with a given status and body
ResponseWith(s, text) == [ kind |-> "response", status |-> s, data |-> Data(text) ]

Response(s) == ResponseWith(s, "")

\* An AxiosError raised by the transport with no response (network error,
\* timeout): an object without a status property.
NetworkError == [ kind |-> "error", status |-> -1, data |-> Data("") ]

\* null / undefined in the place of an error or a response
NoResponse == [ kind |-> "none", status |-> -1, data |-> Data("") ]

TransportOutcomes == { Response(s) : s \in Statuses } \cup { NetworkError }

---------------------------------------------------------------------------
(* Collections: what a getServiceEndpoints promise resolves to.  Either an *)
(* object mapping service names to URLs ("map"), or, when read back from   *)
(* the cache after the error branch stored serviceList there, an array of  *)
(* service names ("array").                                                *)

EmptyHosts == [ s \in {} |-> "" ]

NoCollection == [ kind |-> "none", hosts |-> EmptyHosts, items |-> {} ]

MapCollection(h) == [ kind |-> "map", hosts |-> h, items |-> {} ]

ArrayCollection(list) == [ kind |-> "array", hosts |-> EmptyHosts, items |-> list ]

\* The index keys "0".."n-1" of an array of n elements
IndexNames == << "0", "1", "2", "3", "4", "5", "6", "7", "8", "9", "10",
                 "11", "12", "13", "14", "15" >>

\* Object.keys( collection )
ObjectKeys(collection) ==
    IF collection.kind = "map" THEN DOMAIN collection.hosts
    ELSE { IndexNames[i] : i \in 1..Cardinality(collection.items) }

\* collection.hasOwnProperty( service_name )
CollectionHasService(collection, service_name) ==
    IF collection.kind = "map" THEN service_name \in DOMAIN collection.hosts
    ELSE service_name \in ObjectKeys(collection) \cup { "length" }

---------------------------------------------------------------------------
(* The ephemeral cache.                                                    *)

CacheKey(accountId) == "/endpoints/" \o accountId

\* AlCabinet.get: the stored value, or null (NoCollection) when the key is
\* absent or its entry has expired
StorageGet(st, key) ==
    IF key \in DOMAIN st /\ now < st[key].expires
    THEN st[key].value
    ELSE NoCollection

\* AlCabinet.set( key, data, ttlSeconds )
StorageSet(st, key, data, ttlSeconds) ==
    [ k \in DOMAIN st \cup { key } |->
        IF k = key THEN [ value |-> data, expires |-> now + ttlSeconds * 1000 ]
        ELSE st[k] ]

getCachedValue(st, key) == StorageGet(st, key)

\* (mutant) the ttl handed on in milliseconds where seconds are expected
setCachedValue_Millis(st, key, data, ttl) ==
    IF ttl < MinCacheTTL THEN st
    ELSE StorageSet(st, key, data, ttl)

\* (mutant) without the guard: a ttl below one second is stored as 0 seconds
setCachedValue_NoGuard(st, key, data, ttl) ==
    StorageSet(st, key, data, ttl \div 1000)

setCachedValue(st, key, data, ttl) ==
    IF ttl < MinCacheTTL THEN st
    ELSE StorageSet(st, key, data, ttl \div 1000)

deleteCachedValue(st, key) == [ k \in DOMAIN st \ { key } |-> st[k] ]

\* `if ( cached )`: null is falsy, objects and arrays are truthy
Truthy(collection) == collection.kind # "none"

---------------------------------------------------------------------------
(* The transport behind the interceptors of getAxiosInstance.              *)

\* (mutant) the comparison with 200 off by one: a 200 is turned away too
onRequestResponse_RejectOK(response) ==
    IF response.status <= 200 \/ response.status >= 400
    THEN [ settled |-> "rejected", value |-> response ]
    ELSE [ settled |-> "resolved", value |-> response ]

\* onRequestResponse: every response reaches it (validateStatus is always
\* true); a status below 200 or from 400 on is turned into a rejection.
onRequestResponse(response) ==
    IF response.status < 200 \/ response.status >= 400
    THEN [ settled |-> "rejected", value |-> response ]
    ELSE [ settled |-> "resolved", value |-> response ]

\* (mutant) an error handler on the response interceptor that rejects with
\* error.response, which a transport error does not have
AxiosSettle_RejectResponse(outcome) ==
    IF outcome.kind = "response" THEN onRequestResponse(outcome)
    ELSE [ settled |-> "rejected", value |-> NoResponse ]

\* What ax( config ) settles with: a response goes through the response
\* interceptor; a transport error has no interceptor and rejects with the
\* AxiosError itself.
AxiosSettle(outcome) ==
    IF outcome.kind = "response" THEN onRequestResponse(outcome)
    ELSE [ settled |-> "rejected", value |-> outcome ]

---------------------------------------------------------------------------
(* Request descriptors (APIRequestParams).  A descriptor is a record of   *)
(* the fields normalizeRequest and calculateRequestURL read or write.  A  *)
(* string field that the object does not have is "", a version it does    *)
(* not have is NoVersion, a path it does not have is NoPath, a flag it    *)
(* does not have is "absent", and a descriptor without a headers object   *)
(* has headers.present = FALSE.                                           *)

\* AlLocation.InsightAPI and AlLocation.GlobalAPI
InsightAPI == "insight:api"

GlobalAPI == "global:api"

\* AlLocatorService.resolveURL( AlLocation.GlobalAPI )
GlobalAPIURL == "https://api.global.alertlogic.com"

\* AlLocatorService.resolveURL( service_stack ): the static location table
resolveURL(service_stack) ==
    IF service_stack = InsightAPI THEN InsightAPIURL
    ELSE IF service_stack = GlobalAPI THEN GlobalAPIURL
    ELSE "undefined"

NoVersion == [ type |-> "undefined", s |-> "", n |-> 0 ]

StringVersion(s) == [ type |-> "string", s |-> s, n |-> 0 ]

NumberVersion(n) == [ type |-> "number", s |-> "", n |-> n ]

NoHeaders == [ present |-> FALSE, Accept |-> "" ]

HeadersWith(accept) == [ present |-> TRUE, Accept |-> accept ]

\* A path is its first character, when that is a slash, and the rest
NoPath == [ lead |-> "", rest |-> "" ]

PathOf(lead, rest) == [ lead |-> lead, rest |-> rest ]

\* {}: a descriptor with none of the fields
EmptyDescriptor ==
    [ service_stack |-> "", service_name |-> "", residency |-> "",
      version |-> NoVersion, account_id |-> "", path |-> NoPath,
      noEndpointsResolution |-> "absent", url |-> "", headers |-> NoHeaders,
      accept_header |-> "", response_type |-> "", responseType |-> "" ]

\* AlApiClient.defaultServiceParams (the ttl default is read by get only)
defaultServiceParams ==
    [ EmptyDescriptor EXCEPT !.service_stack = InsightAPI,
                             !.residency = "default",
                             !.version = StringVersion("v1") ]

\* Object.assign( target, source ) for one string field
AssignString(target, source) == IF source # "" THEN source ELSE target

\* Object.assign( {}, target, source ): every field the source has replaces
\* the target's.  The copy is shallow: a headers object is taken as it is.
ObjectAssign(target, source) ==
    [ service_stack |-> AssignString(target.service_stack, source.service_stack),
      service_name |-> AssignString(target.service_name, source.service_name),
      residency |-> AssignString(target.residency, source.residency),
      version |-> IF source.version.type # "undefined" THEN source.version
                  ELSE target.version,
      account_id |-> AssignString(target.account_id, source.account_id),
      path |-> IF source.path # NoPath THEN source.path ELSE target.path,
      noEndpointsResolution |->
          IF source.noEndpointsResolution # "absent"
          THEN source.noEndpointsResolution ELSE target.noEndpointsResolution,
      url |-> AssignString(target.url, source.url),
      headers |-> IF source.headers.present THEN source.headers ELSE target.headers,
      accept_header |-> AssignString(target.accept_header, source.accept_header),
      response_type |-> AssignString(target.response_type, source.response_type),
      responseType |-> AssignString(target.responseType, source.responseType) ]

---------------------------------------------------------------------------
(* The endpoint resolver.                                                  *)

\* requestParams.account_id || this.defaultAccountId || "0"
PrepareAccountId(account_id) ==
    IF account_id # "" THEN account_id
    ELSE IF defaultAccountId # "" THEN defaultAccountId
    ELSE "0"

\* (mutant) prepare() without the memo: every call makes its own lookup
NeedsResolution_Always(accountId) == TRUE

\* ! this.endpointResolution.hasOwnProperty( accountId )
NeedsResolution(accountId) == accountId \notin DOMAIN endpointResolution

\* serviceList = defaultServiceList; push service_name unless included
WatchListWith(service_name) ==
    IF service_name \in defaultServiceList THEN defaultServiceList
    ELSE defaultServiceList \cup { service_name }

\* Object.keys( collection ).concat( requestParams.service_name )
WidenedServiceList(collection, service_name) ==
    ObjectKeys(collection) \cup { service_name }

\* getServiceEndpoints up to its return: the cached value if there is one,
\* else a pending promise for a POST of serviceList to the endpoints service
getServiceEndpoints(st, accountId, serviceList, aliased, creator) ==
    LET cached == getCachedValue(st, CacheKey(accountId))
        base == [ accountId |-> accountId, serviceList |-> serviceList,
                  aliased |-> aliased, creator |-> creator, epoch |-> resets ]
    IN  IF Truthy(cached)
        THEN base @@ [ network |-> FALSE, state |-> "resolved", value |-> cached,
                       outcome |-> "cached", settledAt |-> now ]
        ELSE base @@ [ network |-> TRUE, state |-> "pending", value |-> NoCollection,
                       outcome |-> "none", settledAt |-> 0 ]

\* endpointResolution[accountId] = <promise p>
StoreResolution(accountId, p) ==
    [ a \in DOMAIN endpointResolution \cup { accountId } |->
        IF a = accountId THEN p ELSE endpointResolution[a] ]

\* The first promise getServiceEndpoints made for an account (history)
FirstLookup(lk, accountId) ==
    CHOOSE p \in DOMAIN lk :
        /\ lk[p].accountId = accountId
        /\ \A q \in DOMAIN lk : lk[q].accountId = accountId => p <= q

\* prepare() up to its first await, as run by whoever calls it
PrepareCall(account_id, service_name) ==
    /\ Len(calls) < MaxCalls
    /\ NeedsResolution(PrepareAccountId(account_id)) => Len(lookups) < MaxLookups
    /\ LET accountId == PrepareAccountId(account_id)
           needs == NeedsResolution(accountId)
           serviceList == WatchListWith(service_name)
           made == getServiceEndpoints(storage, accountId, serviceList, TRUE,
                                       Len(calls) + 1)
           p == IF needs THEN Len(lookups) + 1 ELSE endpointResolution[accountId]
           lk == IF needs THEN Append(lookups, made) ELSE lookups
       IN  /\ defaultServiceList' = IF needs THEN serviceList ELSE defaultServiceList
           /\ lookups' = lk
           /\ endpointResolution' =
                 IF needs THEN StoreResolution(accountId, p) ELSE endpointResolution
           /\ calls' = Append(calls,
                 [ accountId |-> accountId, service_name |-> service_name,
                   pc |-> "await1", awaiting |-> p, joined |-> p,
                   fresh |-> needs /\ made.network, issuedAt |-> now,
                   early |-> lk[FirstLookup(lk, accountId)].state = "pending",
                   result |-> NoCollection, from |-> 0, epoch |-> resets ])

\* prepare() up to its first await
Prepare(account_id, service_name) ==
    /\ PrepareCall(account_id, service_name)
    /\ UNCHANGED << globalServiceParams, normalizations >>
    /\ UNCHANGED << now, storage, resets, ticks, requests, ops, events >>

\* prepare() from its first await on, and the completion of the promise it
\* returns at the end
PrepareResume(c) ==
    /\ c \in DOMAIN calls
    /\ calls[c].pc \in { "await1", "await2" }
    /\ lookups[calls[c].awaiting].state # "pending"
    /\ LET call == calls[c]
           l == lookups[call.awaiting]
           key == CacheKey(call.accountId)
           cleared == deleteCachedValue(storage, key)
           made == getServiceEndpoints(cleared, call.accountId,
                       WidenedServiceList(l.value, call.service_name), FALSE, c)
       IN  IF l.state = "rejected"
           THEN /\ calls' = [ calls EXCEPT ![c] = [ @ EXCEPT !.pc = "rejected" ] ]
                /\ UNCHANGED << storage, lookups, endpointResolution >>
           ELSE IF call.pc = "await2" \/ CollectionHasService(l.value, call.service_name)
           THEN /\ calls' = [ calls EXCEPT ![c] =
                        [ @ EXCEPT !.pc = "done", !.result = l.value,
                                   !.from = call.awaiting ] ]
                /\ UNCHANGED << storage, lookups, endpointResolution >>
           ELSE /\ Len(lookups) < MaxLookups
                /\ storage' = cleared
                /\ lookups' = Append(lookups, made)
                /\ endpointResolution' = StoreResolution(call.accountId, Len(lookups) + 1)
                /\ calls' = [ calls EXCEPT ![c] =
                        [ @ EXCEPT !.pc = "await2", !.awaiting = Len(lookups) + 1 ] ]
    /\ UNCHANGED << globalServiceParams, normalizations >>
    /\ UNCHANGED << now, defaultServiceList, resets, ticks, requests, ops, events >>

\* A raw host of the discovery response
\* (watch-list services come without a scheme, the others with one)
RawHost(s) ==
    [ scheme |-> IF s \in InitialServiceList THEN "" ELSE "https://",
      rest |-> "api.cloudinsight.example.net" ]

\* response.data of the endpoints service for a requested service list
DiscoveryData(serviceList, dshape) ==
    [ s \in ( IF dshape = "full" THEN serviceList
              ELSE serviceList \cap InitialServiceList ) |-> RawHost(s) ]

\* ( endpointHost as string ).startsWith( "http" )
StartsWithHttp(host) == host.scheme \in { "http://", "https://" }

\* endpointHost.startsWith( "http" ) ? endpointHost : `https://${endpointHost}`
TranslateHost(host) ==
    IF StartsWithHttp(host) THEN host.scheme \o host.rest
    ELSE "https://" \o ( host.scheme \o host.rest )

\* The success handler of getServiceEndpoints
SuccessBranch(l, data) ==
    LET translated == MapCollection([ s \in DOMAIN data |-> TranslateHost(data[s]) ])
    IN  [ state |-> "resolved", outcome |-> "ok", value |-> translated,
          cached |-> translated, ttl |-> EndpointsTTL ]

\* (mutant) an error handler that passes the failure on to the callers
ErrorBranch_Rethrow(l) ==
    [ state |-> "rejected", outcome |-> "failed", value |-> NoCollection,
      cached |-> NoCollection, ttl |-> 0 ]

\* The error handler of getServiceEndpoints.  serviceList is the array the
\* promise was made with: for the first lookup of an account that is the
\* static defaultServiceList itself, read when the handler runs.
ErrorBranch(l) ==
    LET serviceList == IF l.aliased THEN defaultServiceList ELSE l.serviceList
        serviceLocations == MapCollection([ s \in serviceList |-> InsightAPIURL ])
    IN  [ state |-> "resolved", outcome |-> "failed", value |-> serviceLocations,
          cached |-> ArrayCollection(serviceList), ttl |-> FallbackTTL ]

\* The transport call of a pending lookup settles.  The endpoints request
\* carries no retry_count, so axiosRequest passes the outcome of its single
\* attempt on to the handlers of getServiceEndpoints.
LookupSettle(p, outcome, dshape) ==
    /\ p \in DOMAIN lookups
    /\ lookups[p].state = "pending"
    /\ LET l == lookups[p]
           settled == AxiosSettle(outcome)
           branch == IF settled.settled = "resolved"
                     THEN SuccessBranch(l, DiscoveryData(l.serviceList, dshape))
                     ELSE ErrorBranch(l)
       IN  /\ lookups' = [ lookups EXCEPT ![p] =
                    [ @ EXCEPT !.state = branch.state, !.outcome = branch.outcome,
                               !.value = branch.value, !.settledAt = now ] ]
           /\ storage' = IF branch.state = "resolved"
                         THEN setCachedValue(storage, CacheKey(l.accountId),
                                             branch.cached, branch.ttl)
                         ELSE storage
    /\ UNCHANGED << globalServiceParams, normalizations >>
    /\ UNCHANGED << now, defaultServiceList, endpointResolution, calls, resets,
                    ticks, requests, ops, events >>

\* reset(): endpointResolution = {}, storage.destroy(),
\* globalServiceParams = Object.assign( {}, defaultServiceParams )
Reset ==
    /\ resets < MaxResets
    /\ resets' = resets + 1
    /\ endpointResolution' = [ a \in {} |-> 0 ]
    /\ storage' = [ k \in {} |-> 0 ]
    /\ globalServiceParams' = ObjectAssign(EmptyDescriptor, defaultServiceParams)
    /\ UNCHANGED normalizations
    /\ UNCHANGED << now, defaultServiceList, lookups, calls, ticks, requests, ops, events >>

\* Time passes: the clock jumps past one of the two ttls
Tick(d) ==
    /\ ticks < MaxTicks
    /\ ticks' = ticks + 1
    /\ now' = now + d
    /\ UNCHANGED << globalServiceParams, normalizations >>
    /\ UNCHANGED << storage, defaultServiceList, endpointResolution, lookups,
                    calls, resets, requests, ops, events >>

---------------------------------------------------------------------------
(* The retry engine.  A logical axiosRequest call is a record of           *)
(* `requests`: its config (hasRetryCount, retry_count, retry_interval),    *)
(* the attemptIndex of the running invocation, and its phase: "inflight"   *)
(* (ax( config ) is pending), "backoff" (AlStopwatch.once is pending),     *)
(* "resolved" or "rejected" (the outer promise has settled).               *)

\* retry_interval 0 stands for an absent (or zero, equally falsy) interval
RetryIntervals == { 0, 500, 1000 }

\* (mutant) the budget test off by one: attemptIndex > config.retry_count
isRetryableError_OffByOne(error, config, attemptIndex) ==
    IF ~config.hasRetryCount \/ attemptIndex > config.retry_count THEN FALSE
    ELSE IF error.kind = "none" THEN TRUE
    ELSE IF /\ error.kind = "response"
            /\ \/ error.status = 0
               \/ ( error.status >= 300 /\ error.status <= 399 )
               \/ ( error.status >= 500 /\ error.status <= 599 )
         THEN TRUE
    ELSE FALSE

\* (mutant) one status range 300..599, which takes in the client errors
isRetryableError_AnyErrorStatus(error, config, attemptIndex) ==
    IF ~config.hasRetryCount \/ attemptIndex >= config.retry_count THEN FALSE
    ELSE IF error.kind = "none" THEN TRUE
    ELSE IF /\ error.kind = "response"
            /\ \/ error.status = 0
               \/ ( error.status >= 300 /\ error.status <= 599 )
         THEN TRUE
    ELSE FALSE

\* isRetryableError( error, config, attemptIndex ).  An AxiosError object is
\* truthy and has no status, so every comparison of its status is false.
isRetryableError(error, config, attemptIndex) ==
    IF ~config.hasRetryCount \/ attemptIndex >= config.retry_count THEN FALSE
    ELSE IF error.kind = "none" THEN TRUE
    ELSE IF /\ error.kind = "response"
            /\ \/ error.status = 0
               \/ ( error.status >= 300 /\ error.status <= 399 )
               \/ ( error.status >= 500 /\ error.status <= 599 )
         THEN TRUE
    ELSE FALSE

\* Math.floor( ( config.retry_interval ? config.retry_interval : 1000 ) * attemptIndex )
RetryDelay(config, attemptIndex) ==
    ( IF config.retry_interval # 0 THEN config.retry_interval
      ELSE DefaultRetryInterval ) * attemptIndex

\* The attempt index handed to the recursive call: attemptIndex + 1, after
\* the error handler already did attemptIndex++
NextAttemptIndex(attemptIndex) == attemptIndex + 1

\* generateCacheBuster( attemptIndex ): `${verb}-${hash}-${attemptIndex}`,
\* of which the model keeps the last component
generateCacheBuster(attemptIndex) == attemptIndex

\* axiosRequest( config ) up to its return: ax( config ) is called with
\* attemptIndex = 0
NewRequest(hasRetryCount, retry_count, retry_interval) ==
    [ hasRetryCount |-> hasRetryCount, retry_count |-> retry_count,
      retry_interval |-> retry_interval, attemptIndex |-> 0,
      phase |-> "inflight", breaker |-> -1, result |-> NoResponse,
      attempts |-> << 0 >>, delays |-> << >>, outcomes |-> << >> ]

\* axiosRequest( config ): the first invocation, attemptIndex = 0
StartRequest(hasRetryCount, retry_count, retry_interval) ==
    /\ Len(requests) < MaxRequests
    /\ requests' = Append(requests,
          NewRequest(hasRetryCount, retry_count, retry_interval))
    /\ UNCHANGED << globalServiceParams, normalizations >>
    /\ UNCHANGED << now, storage, defaultServiceList, endpointResolution,
                    lookups, calls, resets, ticks, ops, events >>

\* ax( config ) settles and the handlers of axiosRequest run
TransportSettle(r, outcome) ==
    /\ r \in DOMAIN requests
    /\ requests[r].phase = "inflight"
    /\ LET req == requests[r]
           settled == AxiosSettle(outcome)
           seen == [ req EXCEPT !.outcomes = Append(@, outcome) ]
       IN  requests' = [ requests EXCEPT ![r] =
             IF settled.settled = "resolved"
             THEN [ seen EXCEPT !.phase = "resolved", !.result = settled.value ]
             ELSE IF isRetryableError(settled.value, req, req.attemptIndex)
             THEN [ seen EXCEPT !.phase = "backoff",
                                !.attemptIndex = req.attemptIndex + 1,
                                !.delays = Append(@, RetryDelay(req, req.attemptIndex + 1)) ]
             ELSE [ seen EXCEPT !.phase = "rejected", !.result = settled.value ] ]
    /\ UNCHANGED << globalServiceParams, normalizations >>
    /\ UNCHANGED << now, storage, defaultServiceList, endpointResolution,
                    lookups, calls, resets, ticks, ops, events >>

\* (mutant) a timer callback that calls axiosRequest again without handing
\* its promise to resolve and reject: the outer promise stays pending
TimerFire_Unchained(r) ==
    /\ r \in DOMAIN requests
    /\ requests[r].phase = "backoff"
    /\ LET req == requests[r]
           next == NextAttemptIndex(req.attemptIndex)
       IN  requests' = [ requests EXCEPT ![r] =
             [ req EXCEPT !.breaker = generateCacheBuster(req.attemptIndex),
                          !.attemptIndex = next,
                          !.attempts = Append(@, next),
                          !.phase = "unchained" ] ]
    /\ UNCHANGED << globalServiceParams, normalizations >>
    /\ UNCHANGED << now, storage, defaultServiceList, endpointResolution,
                    lookups, calls, resets, ticks, ops, events >>

\* The AlStopwatch.once callback: set params.breaker, call axiosRequest again
TimerFire(r) ==
    /\ r \in DOMAIN requests
    /\ requests[r].phase = "backoff"
    /\ LET req == requests[r]
           next == NextAttemptIndex(req.attemptIndex)
       IN  requests' = [ requests EXCEPT ![r] =
             [ req EXCEPT !.breaker = generateCacheBuster(req.attemptIndex),
                          !.attemptIndex = next,
                          !.attempts = Append(@, next),
                          !.phase = "inflight" ] ]
    /\ UNCHANGED << globalServiceParams, normalizations >>
    /\ UNCHANGED << now, storage, defaultServiceList, endpointResolution,
                    lookups, calls, resets, ticks, ops, events >>

---------------------------------------------------------------------------
(* The request methods: get, and the writes post, put, delete and form.    *)
(* An invocation is a record of `ops`; pc is "normalize" while it awaits   *)
(* normalizeRequest, "request" while it awaits axiosRequest, then "done"   *)
(* or "rejected".  The config is a concrete request: it carries its url    *)
(* and no service_name, so normalizeRequest leaves the url as it is.       *)

\* config.url
UrlInputs == { "https://api.example.net/x", "https://api.example.net/y" }

\* config.params: a list of name / value pairs, empty when absent
NoParams == << >>

PageParams == << [ p |-> "page", v |-> "2" ] >>

\* config.ttl: absent, true, or a number of milliseconds
NoTtl == [ type |-> "undefined", n |-> 0 ]

TtlTrue == [ type |-> "boolean", n |-> 1 ]

TtlInputs == { NoTtl, [ type |-> "number", n |-> 1500 ] }

\* ttl: 0 and ttl: false
TtlZero == [ type |-> "number", n |-> 0 ]

TtlFalse == [ type |-> "boolean", n |-> 0 ]

\* The bodies a 200 response may carry: an empty one and two others
BodyInputs == { "", "d1", "d2" }

\* What the transport may answer to a get or a write
ClientOutcomes ==
    { ResponseWith(200, b) : b \in BodyInputs }
      \cup { ResponseWith(304, "d1"), Response(503) }

WriteMethods == { "POST", "PUT", "DELETE", "FORM" }

\* Object.entries( config.params ).map( `${p}=${v}` ).join( "&" )
RECURSIVE QueryString(_)
QueryString(params) ==
    IF Len(params) = 0 THEN ""
    ELSE IF Len(params) = 1 THEN params[1].p \o "=" \o params[1].v
    ELSE params[1].p \o "=" \o params[1].v \o "&" \o QueryString(Tail(params))

\* let fullUrl = `normalized.url${queryParams.length>0?'?'+queryParams:''}`:
\* the text "normalized.url" is outside any ${ }, so it is taken literally
FullUrl(url, queryParams) ==
    "normalized.url" \o ( IF queryParams # "" THEN "?" \o queryParams ELSE "" )

\* cacheTTL: normalized.ttl if a positive number, 60000 if true, else 0
\* (mutant) a get() that caches for a minute unless told otherwise
CacheTTL_OnByDefault(ttl) ==
    IF ttl.type = "number" /\ ttl.n > 0 THEN ttl.n
    ELSE IF ttl.type = "number" THEN 0
    ELSE IF ttl.type = "boolean" /\ ttl.n = 0 THEN 0
    ELSE 60000

CacheTTL(ttl) ==
    IF ttl.type = "number" /\ ttl.n > 0 THEN ttl.n
    ELSE IF ttl.type = "boolean" /\ ttl.n = 1 THEN 60000
    ELSE 0

\* `if ( cachedValue )`: null and an empty body are falsy
TruthyValue(v) == v.kind # "none" /\ ( v.kind = "data" => v.text # "" )

\* The invocations that have not settled yet
InFlight ==
    { o \in DOMAIN ops : ops[o].pc \in { "resolve", "normalize", "request" } }

\* An entry of the log of cache operations (history)
Event(op, what, key, value, ttl) ==
    [ op |-> op, what |-> what, key |-> key, value |-> value, ttl |-> ttl,
      at |-> now, epoch |-> resets ]

\* get( config ) up to `await this.normalizeRequest( config )`
GetCall(url, params, ttl, hasRetryCount, retry_count) ==
    /\ Len(ops) < MaxOps
    /\ ops' = Append(ops,
          [ method |-> "GET", url |-> url, params |-> params, ttl |-> ttl,
            hasRetryCount |-> hasRetryCount, retry_count |-> retry_count,
            pc |-> "normalize", request |-> 0, result |-> Data(""),
            error |-> NoResponse, fromCache |-> FALSE ])
    /\ UNCHANGED << globalServiceParams, normalizations >>
    /\ UNCHANGED << now, storage, defaultServiceList, endpointResolution,
                    lookups, calls, resets, ticks, requests, events >>

\* get( config ) called while fewer than MaxInFlight invocations are running
Get(url, params, ttl, hasRetryCount, retry_count) ==
    /\ Cardinality(InFlight) < MaxInFlight
    /\ GetCall(url, params, ttl, hasRetryCount, retry_count)

\* get() from normalizeRequest's return to `await this.axiosRequest`, or to
\* its return of the cached value
GetNormalized(o) ==
    /\ o \in DOMAIN ops
    /\ ops[o].method = "GET" /\ ops[o].pc = "normalize"
    /\ LET op == ops[o]
           fullUrl == FullUrl(op.url, QueryString(op.params))
           cacheTTL == CacheTTL(op.ttl)
           cachedValue == getCachedValue(storage, fullUrl)
       IN  IF cacheTTL # 0 /\ TruthyValue(cachedValue)
           THEN /\ ops' = [ ops EXCEPT ![o] =
                     [ @ EXCEPT !.pc = "done", !.result = cachedValue,
                                !.fromCache = TRUE ] ]
                /\ events' = Append(events, Event(o, "hit", fullUrl, cachedValue, 0))
                /\ UNCHANGED requests
           ELSE /\ requests' = Append(requests,
                     NewRequest(op.hasRetryCount, op.retry_count, 0))
                /\ ops' = [ ops EXCEPT ![o] =
                     [ @ EXCEPT !.pc = "request", !.request = Len(requests) + 1 ] ]
                /\ events' = IF cacheTTL # 0
                             THEN Append(events, Event(o, "miss", fullUrl, cachedValue, 0))
                             ELSE events
    /\ UNCHANGED << globalServiceParams, normalizations >>
    /\ UNCHANGED << now, storage, defaultServiceList, endpointResolution,
                    lookups, calls, resets, ticks >>

\* get() after `await this.axiosRequest( normalized )`
GetSettled(o) ==
    /\ o \in DOMAIN ops
    /\ ops[o].method = "GET" /\ ops[o].pc = "request"
    /\ requests[ops[o].request].phase \in { "resolved", "rejected" }
    /\ LET op == ops[o]
           req == requests[op.request]
           fullUrl == FullUrl(op.url, QueryString(op.params))
           cacheTTL == CacheTTL(op.ttl)
       IN  IF req.phase = "rejected"
           THEN /\ ops' = [ ops EXCEPT ![o] =
                     [ @ EXCEPT !.pc = "rejected", !.error = req.result ] ]
                /\ UNCHANGED << storage, events >>
           ELSE /\ ops' = [ ops EXCEPT ![o] =
                     [ @ EXCEPT !.pc = "done", !.result = req.result.data ] ]
                /\ storage' = IF cacheTTL # 0
                              THEN setCachedValue(storage, fullUrl, req.result.data, cacheTTL)
                              ELSE storage
                /\ events' = IF cacheTTL # 0
                             THEN Append(events,
                                    Event(o, "store", fullUrl, req.result.data, cacheTTL))
                             ELSE events
    /\ UNCHANGED << globalServiceParams, normalizations >>
    /\ UNCHANGED << now, defaultServiceList, endpointResolution, lookups,
                    calls, resets, ticks, requests >>

\* post / put / delete / form up to `await this.normalizeRequest( config )`
WriteCall(method, url, hasRetryCount, retry_count) ==
    /\ Len(ops) < MaxOps
    /\ ops' = Append(ops,
          [ method |-> method, url |-> url, params |-> << >>, ttl |-> NoTtl,
            hasRetryCount |-> hasRetryCount, retry_count |-> retry_count,
            pc |-> "normalize", request |-> 0, result |-> Data(""),
            error |-> NoResponse, fromCache |-> FALSE ])
    /\ UNCHANGED << globalServiceParams, normalizations >>
    /\ UNCHANGED << now, storage, defaultServiceList, endpointResolution,
                    lookups, calls, resets, ticks, requests, events >>

\* post / put / delete / form called while fewer than MaxInFlight
\* invocations are running
Write(method, url, hasRetryCount, retry_count) ==
    /\ Cardinality(InFlight) < MaxInFlight
    /\ WriteCall(method, url, hasRetryCount, retry_count)

\* A write from normalizeRequest's return to `await this.axiosRequest`:
\* this.deleteCachedValue( normalized.url )
WriteNormalized(o) ==
    /\ o \in DOMAIN ops
    /\ ops[o].method \in WriteMethods /\ ops[o].pc = "normalize"
    /\ LET op == ops[o]
       IN  /\ storage' = deleteCachedValue(storage, op.url)
           /\ events' = Append(events, Event(o, "invalidate", op.url, Data(""), 0))
           /\ requests' = Append(requests,
                 NewRequest(op.hasRetryCount, op.retry_count, 0))
           /\ ops' = [ ops EXCEPT ![o] =
                 [ @ EXCEPT !.pc = "request", !.request = Len(requests) + 1 ] ]
    /\ UNCHANGED << globalServiceParams, normalizations >>
    /\ UNCHANGED << now, defaultServiceList, endpointResolution, lookups,
                    calls, resets, ticks >>

\* A write after `await this.axiosRequest( normalized )`
WriteSettled(o) ==
    /\ o \in DOMAIN ops
    /\ ops[o].method \in WriteMethods /\ ops[o].pc = "request"
    /\ requests[ops[o].request].phase \in { "resolved", "rejected" }
    /\ LET req == requests[ops[o].request]
       IN  ops' = [ ops EXCEPT ![o] =
             IF req.phase = "rejected"
             THEN [ @ EXCEPT !.pc = "rejected", !.error = req.result ]
             ELSE [ @ EXCEPT !.pc = "done", !.result = req.result.data ] ]
    /\ UNCHANGED << globalServiceParams, normalizations >>
    /\ UNCHANGED << now, storage, defaultServiceList, endpointResolution,
                    lookups, calls, resets, ticks, requests, events >>

---------------------------------------------------------------------------
(* The cache on its own: setCachedValue and deleteCachedValue applied to   *)
(* keys, values and ttls drawn from small sets, while the clock advances.  *)

KeyInputs == { "k1", "k2" }

ValueInputs == { Data("d1"), Data("d2") }

\* ttl in milliseconds: below one second, one second, one and a half
CacheTtlInputs == { 999, 1000, 1500 }

\* By how much the clock advances in one step
ClockSteps == { 250 }

\* this.setCachedValue( key, data, ttl )
CacheSet(key, data, ttl) ==
    /\ Len(events) < MaxCacheOps
    /\ storage' = setCachedValue(storage, key, data, ttl)
    /\ events' = Append(events, Event(0, "set", key, data, ttl))
    /\ UNCHANGED << globalServiceParams, normalizations >>
    /\ UNCHANGED << now, defaultServiceList, endpointResolution, lookups,
                    calls, resets, ticks, requests, ops >>

\* this.deleteCachedValue( key )
CacheDelete(key) ==
    /\ Len(events) < MaxCacheOps
    /\ storage' = deleteCachedValue(storage, key)
    /\ events' = Append(events, Event(0, "delete", key, Data(""), 0))
    /\ UNCHANGED << globalServiceParams, normalizations >>
    /\ UNCHANGED << now, defaultServiceList, endpointResolution, lookups,
                    calls, resets, ticks, requests, ops >>

\* Time passes
ClockAdvance(d) ==
    /\ now < MaxClock
    /\ now' = now + d
    /\ UNCHANGED << globalServiceParams, normalizations >>
    /\ UNCHANGED << storage, defaultServiceList, endpointResolution, lookups,
                    calls, resets, ticks, requests, ops, events >>

---------------------------------------------------------------------------
(* The request normalizer.  A normalizeRequest invocation is a record of  *)
(* `normalizations`: input is the descriptor as it was passed, inputNow   *)
(* the state of that same object now, config the object the method works  *)
(* on and returns, and fresh tells whether config is a new object rather  *)
(* than the one that was passed.  The fields of, at, epoch, globals and   *)
(* host are history: whose output was passed, the time, the number of     *)
(* resets and the global parameters at the call, and the host the URL was *)
(* built on.  The field op is the request method awaiting the result.     *)

StackInputs == { "", InsightAPI, GlobalAPI }

VersionInputs == { NoVersion, StringVersion("v2"), NumberVersion(2), NumberVersion(0) }

AccountIdInputs == { "", "0", "2" }

PathInputs == { NoPath, PathOf("", "users"), PathOf("/", "users") }

\* Descriptors with a service identity: the segments of the URL vary one
\* at a time over a bypassing descriptor, and the ways to the host vary
\* over a plain one
ServiceDescriptors ==
    LET base == [ EmptyDescriptor EXCEPT !.service_name = "aims",
                                         !.noEndpointsResolution = "true" ]
    IN  { [ base EXCEPT !.version = v ] : v \in VersionInputs }
        \cup { [ base EXCEPT !.account_id = a ] : a \in AccountIdInputs }
        \cup { [ base EXCEPT !.path = p ] : p \in PathInputs }
        \cup { [ EmptyDescriptor EXCEPT !.service_name = s, !.service_stack = k ] :
                 s \in ServiceInputs, k \in StackInputs }
        \cup { [ base EXCEPT !.service_stack = InsightAPI ],
               [ EmptyDescriptor EXCEPT !.service_stack = GlobalAPI ],
               [ base EXCEPT !.accept_header = "text/csv",
                             !.headers = HeadersWith("text/html") ] }

\* Descriptors without a service identity: with a URL, and the empty one
ConcreteDescriptors ==
    { [ EmptyDescriptor EXCEPT !.url = "https://api.example.net/x",
                               !.headers = h, !.accept_header = a,
                               !.response_type = r ] :
        h \in { NoHeaders, HeadersWith("text/html") },
        a \in { "", "text/csv" }, r \in { "", "blob" } }
    \cup { EmptyDescriptor }

\* What the host passes to setGlobalParameters
GlobalParameterInputs ==
    { [ EmptyDescriptor EXCEPT !.noEndpointsResolution = "true" ],
      [ EmptyDescriptor EXCEPT !.version = NumberVersion(3) ] }

\* config.hasOwnProperty("service_name") || config.hasOwnProperty("service_stack")
HasServiceIdentity(config) ==
    config.service_name # "" \/ config.service_stack # ""

\* (mutant) a host lookup that pays no attention to noEndpointsResolution
UsesResolver_IgnoreBypass(params) ==
    /\ params.service_name # ""
    /\ params.service_stack = InsightAPI

\* params.service_name && params.service_stack === AlLocation.InsightAPI
\*     && ! params.noEndpointsResolution
UsesResolver(params) ==
    /\ params.service_name # ""
    /\ params.service_stack = InsightAPI
    /\ params.noEndpointsResolution # "true"

\* serviceCollection[params.service_name]
HostOf(collection, service_name) ==
    IF collection.kind = "map" /\ service_name \in DOMAIN collection.hosts
    THEN collection.hosts[service_name]
    ELSE "undefined"

\* (mutant) a version segment that always carries the v prefix
VersionSegment_AlwaysPrefixed(version) ==
    IF version.type = "string" /\ version.s # "" THEN "/v" \o version.s
    ELSE IF version.type = "number" /\ version.n > 0
    THEN "/v" \o ToString(version.n)
    ELSE ""

\* if ( params.version ) { string, non-empty: `/${version}`;
\*                         number, positive: `/v${version.toString()}` }
VersionSegment(version) ==
    IF version.type = "string" /\ version.s # "" THEN "/" \o version.s
    ELSE IF version.type = "number" /\ version.n > 0
    THEN "/v" \o ToString(version.n)
    ELSE ""

\* if ( params.account_id && params.account_id !== '0' )
AccountSegment(account_id) ==
    IF account_id # "" /\ account_id # "0" THEN "/" \o account_id ELSE ""

\* if ( params.hasOwnProperty('path') && params.path.length > 0 )
\*     ( params.path[0] === '/' ? '' : '/' ) + params.path
PathSegment(path) ==
    IF path = NoPath THEN ""
    ELSE ( IF path.lead = "/" THEN "" ELSE "/" ) \o ( path.lead \o path.rest )

\* calculateRequestURL from the host on
RequestURL(host, params) ==
    host \o ( IF params.service_name # "" THEN "/" \o params.service_name ELSE "" )
         \o VersionSegment(params.version)
         \o AccountSegment(params.account_id)
         \o PathSegment(params.path)

\* if ( config.accept_header ) { headers = headers || {};
\*     headers.Accept = accept_header; delete config.accept_header }
FoldAcceptHeader(config) ==
    IF config.accept_header # ""
    THEN [ config EXCEPT !.headers = HeadersWith(config.accept_header),
                         !.accept_header = "" ]
    ELSE config

\* (mutant) the copy to responseType made whether or not there is a
\* response_type
FoldResponseType_Unguarded(config) ==
    [ config EXCEPT !.responseType = config.response_type,
                    !.response_type = "" ]

\* if ( config.response_type ) { config.responseType = config.response_type;
\*     delete config.response_type }
FoldResponseType(config) ==
    IF config.response_type # ""
    THEN [ config EXCEPT !.responseType = config.response_type,
                         !.response_type = "" ]
    ELSE config

\* The second half of normalizeRequest, applied to the object it works on
Fold(config) == FoldResponseType(FoldAcceptHeader(config))

\* The object that was passed, once the second half has run.  When config
\* is that very object it has all the changes; when config is a shallow
\* copy the two share the headers object, which receives Accept.
InputAfterFold(input, fresh, config) ==
    IF ~ fresh THEN Fold(config)
    ELSE IF input.headers.present /\ config.accept_header # ""
    THEN [ input EXCEPT !.headers = HeadersWith(config.accept_header) ]
    ELSE input

\* this.setGlobalParameters( parameters )
SetGlobalParameters(parameters) ==
    /\ globalServiceParams' = ObjectAssign(globalServiceParams, parameters)
    /\ UNCHANGED << now, storage, defaultServiceList, endpointResolution,
                    lookups, calls, resets, ticks, requests, ops, events,
                    normalizations >>

\* normalizeRequest( config ) up to its return or, when the host is to be
\* discovered, up to the await of prepare() inside calculateRequestURL.
\* `of` is 0 when the host of the client passes a descriptor, and n when
\* what is passed is the request that normalization n returned; `op` is
\* the get / post / put / delete / form invocation that made the call, or 0.
NormalizeCall(config, of, op) ==
    /\ LET merged == ObjectAssign(ObjectAssign(EmptyDescriptor, globalServiceParams),
                                  config)
           base == [ input |-> config, of |-> of, op |-> op, at |-> now,
                     epoch |-> resets, globals |-> globalServiceParams ]
       IN  IF ~ HasServiceIdentity(config)
           THEN /\ normalizations' = Append(normalizations,
                      base @@ [ fresh |-> FALSE, pc |-> "done", call |-> 0,
                                host |-> "", config |-> Fold(config),
                                inputNow |-> InputAfterFold(config, FALSE, config) ])
                /\ UNCHANGED << storage, defaultServiceList, endpointResolution,
                                lookups, calls >>
           ELSE IF UsesResolver(merged)
           THEN /\ PrepareCall(merged.account_id, merged.service_name)
                /\ normalizations' = Append(normalizations,
                      base @@ [ fresh |-> TRUE, pc |-> "resolve",
                                call |-> Len(calls) + 1, host |-> "",
                                config |-> merged,
                                inputNow |-> config ])
                /\ UNCHANGED storage
           ELSE LET host == resolveURL(merged.service_stack)
                    located == [ merged EXCEPT !.url = RequestURL(host, merged) ]
                IN  /\ normalizations' = Append(normalizations,
                          base @@ [ fresh |-> TRUE, pc |-> "done", call |-> 0,
                                    host |-> host, config |-> Fold(located),
                                    inputNow |-> InputAfterFold(config, TRUE, located) ])
                    /\ UNCHANGED << storage, defaultServiceList, endpointResolution,
                                    lookups, calls >>

\* normalizeRequest called from outside the request methods
Normalizing(config, of) ==
    /\ NormalizeCall(config, of, 0)
    /\ UNCHANGED << now, resets, ticks, requests, ops, events, globalServiceParams >>

\* normalizeRequest( config ) called on a descriptor
NormalizeRequest(config) ==
    /\ Len(normalizations) < MaxNormalizations
    /\ Normalizing(config, 0)

\* normalizeRequest called on the request an earlier call returned for a
\* descriptor without service identity
NormalizeAgain(n) ==
    /\ n \in DOMAIN normalizations
    /\ normalizations[n].pc = "done"
    /\ normalizations[n].of = 0
    /\ ~ HasServiceIdentity(normalizations[n].input)
    /\ \A m \in DOMAIN normalizations : normalizations[m].of # n
    /\ Normalizing(normalizations[n].config, n)

\* normalizeRequest from the completion of prepare() on
NormalizeResume(n) ==
    /\ n \in DOMAIN normalizations
    /\ normalizations[n].pc = "resolve"
    /\ calls[normalizations[n].call].pc \in { "done", "rejected" }
    /\ LET norm == normalizations[n]
           call == calls[norm.call]
           host == HostOf(call.result, norm.config.service_name)
           located == [ norm.config EXCEPT !.url = RequestURL(host, norm.config) ]
       IN  normalizations' = [ normalizations EXCEPT ![n] =
              IF call.pc = "rejected" THEN [ @ EXCEPT !.pc = "rejected" ]
              ELSE [ @ EXCEPT !.pc = "done", !.host = host,
                              !.config = Fold(located),
                              !.inputNow = InputAfterFold(norm.input, TRUE, located) ] ]
    /\ UNCHANGED << now, storage, defaultServiceList, endpointResolution,
                    lookups, calls, resets, ticks, requests, ops, events,
                    globalServiceParams >>

---------------------------------------------------------------------------
(* A request method called with a service identity: the invocation waits  *)
(* in pc = "resolve" for normalizeRequest, which may wait for prepare().   *)

\* The descriptors of the two services on the discovered stack
ResolvedDescriptors ==
    { [ EmptyDescriptor EXCEPT !.service_name = s ] : s \in ServiceInputs }

\* What the transport answers a service request and a discovery lookup
ServiceOutcomes == { Response(200), Response(503) }

LookupOutcomes == { Response(200), Response(503) }

\* get / post / put / delete ( config ) with a service_name, up to the await
\* of normalizeRequest
ServiceCall(method, config, hasRetryCount, retry_count) ==
    /\ Len(ops) < MaxOps
    /\ Len(normalizations) < MaxNormalizations
    /\ Cardinality(InFlight) < MaxInFlight
    /\ NormalizeCall(config, 0, Len(ops) + 1)
    /\ ops' = Append(ops,
          [ method |-> method, url |-> "", params |-> << >>, ttl |-> NoTtl,
            hasRetryCount |-> hasRetryCount, retry_count |-> retry_count,
            pc |-> "resolve", request |-> 0, result |-> Data(""),
            error |-> NoResponse, fromCache |-> FALSE ])
    /\ UNCHANGED << now, resets, ticks, requests, events, globalServiceParams >>

\* The normalizeRequest call a request method is waiting for
NormalizationOf(o) ==
    CHOOSE n \in DOMAIN normalizations : normalizations[n].op = o

\* `await this.normalizeRequest( config )` returns the normalized request,
\* or throws when normalizeRequest was rejected
AwaitNormalized(o) ==
    /\ o \in DOMAIN ops
    /\ ops[o].pc = "resolve"
    /\ normalizations[NormalizationOf(o)].pc \in { "done", "rejected" }
    /\ LET norm == normalizations[NormalizationOf(o)]
       IN  ops' = [ ops EXCEPT ![o] =
             IF norm.pc = "rejected" THEN [ @ EXCEPT !.pc = "rejected" ]
             ELSE [ @ EXCEPT !.pc = "normalize", !.url = norm.config.url ] ]
    /\ UNCHANGED << now, storage, defaultServiceList, endpointResolution,
                    lookups, calls, resets, ticks, requests, events,
                    globalServiceParams, normalizations >>

---------------------------------------------------------------------------
(* Specifications.                                                         *)

Init ==
    /\ now = 0
    /\ storage = [ k \in {} |-> 0 ]
    /\ defaultServiceList = InitialServiceList
    /\ endpointResolution = [ a \in {} |-> 0 ]
    /\ lookups = << >>
    /\ calls = << >>
    /\ resets = 0
    /\ ticks = 0
    /\ requests = << >>
    /\ ops = << >>
    /\ events = << >>
    /\ globalServiceParams = ObjectAssign(EmptyDescriptor, defaultServiceParams)
    /\ normalizations = << >>

NextResolver ==
    \/ \E account_id \in AccountInputs, service_name \in ServiceInputs :
          Prepare(account_id, service_name)
    \/ \E c \in DOMAIN calls : PrepareResume(c)
    \/ \E p \in DOMAIN lookups, outcome \in TransportOutcomes,
          dshape \in DataShapes :
          LookupSettle(p, outcome, dshape)

SpecResolver == Init /\ [][NextResolver]_vars

\* The resolver with reset()
NextLifecycle ==
    \/ NextResolver
    \/ Reset

SpecLifecycle == Init /\ [][NextLifecycle]_vars

\* The resolver of one account while time passes
NextExpiry ==
    \/ \E service_name \in ServiceInputs : Prepare("2", service_name)
    \/ \E c \in DOMAIN calls : PrepareResume(c)
    \/ \E p \in DOMAIN lookups, outcome \in TransportOutcomes,
          dshape \in DataShapes :
          LookupSettle(p, outcome, dshape)
    \/ \E d \in TickSizes : Tick(d)

SpecExpiry == Init /\ [][NextExpiry]_vars

\* The retry engine
NextRetry ==
    \/ \E retry_interval \in RetryIntervals :
          \/ StartRequest(FALSE, 0, retry_interval)
          \/ \E retry_count \in 0..MaxRetryCount :
                StartRequest(TRUE, retry_count, retry_interval)
    \/ \E r \in DOMAIN requests, outcome \in TransportOutcomes :
          TransportSettle(r, outcome)
    \/ \E r \in DOMAIN requests : TimerFire(r)

SpecRetry == Init /\ [][NextRetry]_vars

\* The request methods over the cache and the retry engine
NextClient ==
    \/ \E url \in UrlInputs, ttl \in TtlInputs :
          Get(url, NoParams, ttl, FALSE, 0)
    \/ \E url \in UrlInputs :
          Get(url, PageParams, TtlTrue, TRUE, 1)
    \/ \E o \in DOMAIN ops : GetNormalized(o)
    \/ \E o \in DOMAIN ops : GetSettled(o)
    \/ \E method \in WriteMethods, url \in UrlInputs :
          Write(method, url, FALSE, 0)
    \/ \E o \in DOMAIN ops : WriteNormalized(o)
    \/ \E o \in DOMAIN ops : WriteSettled(o)
    \/ \E r \in DOMAIN requests, outcome \in ClientOutcomes :
          TransportSettle(r, outcome)
    \/ \E r \in DOMAIN requests : TimerFire(r)

SpecClient == Init /\ [][NextClient]_vars

\* The cache on its own
NextCache ==
    \/ \E key \in KeyInputs, data \in ValueInputs, ttl \in CacheTtlInputs :
          CacheSet(key, data, ttl)
    \/ \E key \in KeyInputs : CacheDelete(key)
    \/ \E d \in ClockSteps : ClockAdvance(d)

SpecCache == Init /\ [][NextCache]_vars

\* The request normalizer over the resolver
NextNormalize ==
    \/ \E parameters \in GlobalParameterInputs : SetGlobalParameters(parameters)
    \/ \E config \in ServiceDescriptors \cup ConcreteDescriptors :
          NormalizeRequest(config)
    \/ \E n \in DOMAIN normalizations : NormalizeAgain(n)
    \/ \E n \in DOMAIN normalizations : NormalizeResume(n)
    \/ \E c \in DOMAIN calls : PrepareResume(c)
    \/ \E p \in DOMAIN lookups, outcome \in TransportOutcomes,
          dshape \in DataShapes :
          LookupSettle(p, outcome, dshape)

SpecNormalize == Init /\ [][NextNormalize]_vars

\* The request methods called with and without a URL, on descriptors that
\* carry no service identity
NextUsage ==
    \/ \E url \in UrlInputs \cup { "" } : Get(url, NoParams, NoTtl, TRUE, 1)
    \/ \E o \in DOMAIN ops : GetNormalized(o)
    \/ \E o \in DOMAIN ops : GetSettled(o)
    \/ \E method \in WriteMethods : Write(method, "", FALSE, 0)
    \/ \E o \in DOMAIN ops : WriteNormalized(o)
    \/ \E o \in DOMAIN ops : WriteSettled(o)
    \/ \E r \in DOMAIN requests, outcome \in ClientOutcomes :
          TransportSettle(r, outcome)
    \/ \E r \in DOMAIN requests : TimerFire(r)

SpecUsage == Init /\ [][NextUsage]_vars

\* Cached reads of one URL and posts to it, running side by side
RaceUrl == "https://api.example.net/x"

RaceOutcomes == { ResponseWith(200, "d1"), ResponseWith(200, "d2"), Response(503) }

NextRace ==
    \/ \E ttl \in TtlInputs : GetCall(RaceUrl, NoParams, ttl, FALSE, 0)
    \/ \E o \in DOMAIN ops : GetNormalized(o)
    \/ \E o \in DOMAIN ops : GetSettled(o)
    \/ WriteCall("POST", RaceUrl, FALSE, 0)
    \/ \E o \in DOMAIN ops : WriteNormalized(o)
    \/ \E o \in DOMAIN ops : WriteSettled(o)
    \/ \E r \in DOMAIN requests, outcome \in RaceOutcomes :
          TransportSettle(r, outcome)

SpecRace == Init /\ [][NextRace]_vars

\* Reads of one URL with caching and without, one after the other
UncachedOutcomes == { ResponseWith(200, "d1"), ResponseWith(200, "d2") }

NextUncached ==
    \/ \E ttl \in { NoTtl, TtlZero, TtlFalse, TtlTrue } :
          Get(RaceUrl, NoParams, ttl, FALSE, 0)
    \/ \E o \in DOMAIN ops : GetNormalized(o)
    \/ \E o \in DOMAIN ops : GetSettled(o)
    \/ \E r \in DOMAIN requests, outcome \in UncachedOutcomes :
          TransportSettle(r, outcome)

SpecUncached == Init /\ [][NextUncached]_vars

\* Whole requests: endpoint resolution, the transport attempts, the retries
NextWhole ==
    \/ \E config \in ResolvedDescriptors :
          \/ ServiceCall("GET", config, TRUE, MaxRetryCount)
          \/ ServiceCall("POST", config, FALSE, 0)
    \/ \E c \in DOMAIN calls : PrepareResume(c)
    \/ \E p \in DOMAIN lookups, outcome \in LookupOutcomes,
          dshape \in DataShapes :
          LookupSettle(p, outcome, dshape)
    \/ \E n \in DOMAIN normalizations : NormalizeResume(n)
    \/ \E o \in DOMAIN ops : AwaitNormalized(o)
    \/ \E o \in DOMAIN ops : GetNormalized(o)
    \/ \E o \in DOMAIN ops : GetSettled(o)
    \/ \E o \in DOMAIN ops : WriteNormalized(o)
    \/ \E o \in DOMAIN ops : WriteSettled(o)
    \/ \E r \in DOMAIN requests, outcome \in ServiceOutcomes :
          TransportSettle(r, outcome)
    \/ \E r \in DOMAIN requests : TimerFire(r)

SpecWhole == Init /\ [][NextWhole]_vars

\* Every transport call settles, every timer fires, and every continuation
\* that is ready to run is run
SpecWholeFair ==
    /\ SpecWhole
    /\ WF_vars(\E p \in DOMAIN lookups, outcome \in LookupOutcomes,
                  dshape \in DataShapes : LookupSettle(p, outcome, dshape))
    /\ WF_vars(\E r \in DOMAIN requests, outcome \in ServiceOutcomes :
                  TransportSettle(r, outcome))
    /\ WF_vars(\E r \in DOMAIN requests : TimerFire(r))
    /\ WF_vars(\E c \in DOMAIN calls : PrepareResume(c))
    /\ WF_vars(\E n \in DOMAIN normalizations : NormalizeResume(n))
    /\ WF_vars(\E o \in DOMAIN ops : AwaitNormalized(o))
    /\ WF_vars(\E o \in DOMAIN ops : GetNormalized(o))
    /\ WF_vars(\E o \in DOMAIN ops : GetSettled(o))
    /\ WF_vars(\E o \in DOMAIN ops : WriteNormalized(o))
    /\ WF_vars(\E o \in DOMAIN ops : WriteSettled(o))

\* The resolver with reset() and setGlobalParameters()
NextFactory ==
    \/ NextLifecycle
    \/ \E parameters \in GlobalParameterInputs : SetGlobalParameters(parameters)

SpecFactory == Init /\ [][NextFactory]_vars

---------------------------------------------------------------------------
(* Properties of the endpoint resolver.                                    *)

AccountIds == { PrepareAccountId(a) : a \in AccountInputs }

\* The lookups of an account whose discovery call is sent and not settled
Outstanding(accountId) ==
    { p \in DOMAIN lookups :
        /\ lookups[p].accountId = accountId
        /\ lookups[p].network
        /\ lookups[p].state = "pending" }

\* The promises made by call c
MadeBy(c) == { p \in DOMAIN lookups : lookups[p].creator = c }

\* Call c is one of several calls of its account issued before the account's
\* first lookup settled
EarlyWithOthers(c) ==
    /\ calls[c].early
    /\ \E d \in DOMAIN calls :
          d # c /\ calls[d].accountId = calls[c].accountId /\ calls[d].early

(* C1: for every account, whatever prepare() calls overlap and in whatever *)
(* order discovery calls settle, at most one discovery lookup of that      *)
(* account is outstanding at any instant (reset() left aside).             *)
C1_OneOutstandingLookup ==
    resets = 0 => \A a \in AccountIds : Cardinality(Outstanding(a)) <= 1

(* C2, as claimed: the prepare() calls of an account issued before its     *)
(* first discovery lookup settles cause exactly one discovery call, that   *)
(* first lookup, and each of them receives the map it produced.            *)
C2_SingleCallForEarlyCallers ==
    resets = 0 =>
      \A c \in DOMAIN calls :
        EarlyWithOthers(c) =>
          LET first == FirstLookup(lookups, calls[c].accountId)
          IN  /\ MadeBy(c) \subseteq { first }
              /\ calls[c].pc = "done" =>
                    /\ calls[c].from = first
                    /\ calls[c].result = lookups[first].value

(* C2, amended: among the prepare() calls of an account issued before its  *)
(* first discovery lookup settles, with no reset() in between, those whose *)
(* service is in the map that lookup produces cause no further discovery   *)
(* call and receive exactly that map.                                      *)
C2_SharedComputation ==
    resets = 0 =>
      \A c \in DOMAIN calls :
        LET first == FirstLookup(lookups, calls[c].accountId)
        IN  ( /\ EarlyWithOthers(c)
              /\ lookups[first].state = "resolved"
              /\ CollectionHasService(lookups[first].value, calls[c].service_name) )
            => /\ MadeBy(c) \subseteq { first }
               /\ calls[c].pc = "done" =>
                     /\ calls[c].from = first
                     /\ calls[c].result = lookups[first].value

\* Two callers of one account, both issued before its first lookup settled,
\* have both received the map of that lookup
C2_Witness ==
    /\ resets = 0
    /\ \E c \in DOMAIN calls, d \in DOMAIN calls :
          /\ c < d
          /\ calls[c].accountId = calls[d].accountId
          /\ calls[c].early /\ calls[d].early
          /\ calls[c].pc = "done" /\ calls[d].pc = "done"
          /\ calls[c].from = FirstLookup(lookups, calls[c].accountId)
          /\ calls[d].from = calls[c].from
          /\ Cardinality(MadeBy(c) \cup MadeBy(d)) = 1

(* C3: prepare() never rejects; a lookup whose transport call failed       *)
(* resolves to a map that routes every service of its requested list to    *)
(* the default host, and that map is what its callers receive.             *)
C3_FallbackNeverRejects ==
    /\ \A p \in DOMAIN lookups :
          /\ lookups[p].state # "rejected"
          /\ lookups[p].outcome = "failed" =>
                /\ lookups[p].state = "resolved"
                /\ lookups[p].value.kind = "map"
                /\ \A s \in lookups[p].serviceList :
                      /\ s \in DOMAIN lookups[p].value.hosts
                      /\ lookups[p].value.hosts[s] = InsightAPIURL
    /\ \A c \in DOMAIN calls :
          /\ calls[c].pc # "rejected"
          /\ ( calls[c].pc = "done" /\ lookups[calls[c].from].outcome = "failed" ) =>
                calls[c].result = lookups[calls[c].from].value

\* A caller has received the fallback map of a failed lookup
C3_Witness ==
    \E c \in DOMAIN calls :
        /\ calls[c].pc = "done"
        /\ lookups[calls[c].from].outcome = "failed"
        /\ calls[c].service_name \in DOMAIN calls[c].result.hosts

---------------------------------------------------------------------------
(* Properties of the resolver while time passes.                           *)

(* C4: no caller receives the fallback map of a failed lookup when it      *)
(* called more than 5 minutes after that lookup failed: such a call gets   *)
(* a fresh discovery lookup instead.                                       *)
C4_FallbackExpires ==
    \A c \in DOMAIN calls :
        ( calls[c].pc = "done" /\ lookups[calls[c].from].outcome = "failed" ) =>
            calls[c].issuedAt <= lookups[calls[c].from].settledAt + FallbackTTL

(* C5: no caller receives the map of a successful lookup when it called    *)
(* more than 15 minutes after that lookup succeeded: such a call gets a    *)
(* new discovery lookup instead.                                           *)
C5_EndpointsExpire ==
    \A c \in DOMAIN calls :
        ( calls[c].pc = "done" /\ lookups[calls[c].from].outcome = "ok" ) =>
            calls[c].issuedAt <= lookups[calls[c].from].settledAt + EndpointsTTL

---------------------------------------------------------------------------
(* Properties of the retry engine.                                         *)

\* The number of retries a request may make
Budget(req) == IF req.hasRetryCount THEN req.retry_count ELSE 0

\* The interval d of a request
Interval(req) ==
    IF req.retry_interval # 0 THEN req.retry_interval ELSE DefaultRetryInterval

IsStatusIn(outcome, lo, hi) ==
    outcome.kind = "response" /\ outcome.status >= lo /\ outcome.status <= hi

\* After its k-th attempt failed, request req went on to retry
Retried(req, k) ==
    k < Len(req.attempts) \/ ( k = Len(req.outcomes) /\ req.phase = "backoff" )

(* C6: a request with retry_count = n >= 1 and interval d whose attempts    *)
(* all answer 503 is rejected after exactly n + 1 attempts, having waited  *)
(* d * k before its k-th retry, k = 1..n.                                  *)
C6_LinearBackoffSchedule ==
    \A r \in DOMAIN requests :
        LET req == requests[r]
        IN  ( /\ req.hasRetryCount /\ req.retry_count >= 1
              /\ req.phase = "rejected"
              /\ \A k \in DOMAIN req.outcomes : req.outcomes[k] = Response(503) )
            => /\ Len(req.attempts) = req.retry_count + 1
               /\ req.delays = [ k \in 1..req.retry_count |-> Interval(req) * k ]

(* C7: the attempt indices of a request start at 0 and increase strictly;  *)
(* it makes at most retry_count + 1 attempts, and exactly one when         *)
(* retry_count is absent or 0.                                             *)
C7_AttemptsBounded ==
    \A r \in DOMAIN requests :
        LET req == requests[r]
        IN  /\ req.attempts[1] = 0
            /\ \A k \in 2..Len(req.attempts) : req.attempts[k - 1] < req.attempts[k]
            /\ Len(req.attempts) <= Budget(req) + 1
            /\ Budget(req) = 0 => Len(req.attempts) = 1

\* A request with a retry budget has retried and was rejected in the end
C7_Witness ==
    \E r \in DOMAIN requests :
        /\ requests[r].hasRetryCount
        /\ Len(requests[r].attempts) >= 3
        /\ requests[r].phase = "rejected"

(* C8: a response with a status in [400,499] is never retried: it is the   *)
(* last attempt of its request, no backoff follows it, and the request is  *)
(* rejected with that response.                                            *)
C8_ClientErrorNotRetried ==
    \A r \in DOMAIN requests :
        LET req == requests[r]
        IN  \A k \in DOMAIN req.outcomes :
              IsStatusIn(req.outcomes[k], 400, 499) =>
                /\ k = Len(req.outcomes)
                /\ Len(req.attempts) = k
                /\ Len(req.delays) = k - 1
                /\ req.phase = "rejected"
                /\ req.result = req.outcomes[k]

\* A request with retry_count = 3 answered 404 on its first attempt
C8_Witness ==
    \E r \in DOMAIN requests :
        /\ requests[r].hasRetryCount /\ requests[r].retry_count = 3
        /\ requests[r].outcomes = << Response(404) >>
        /\ requests[r].phase = "rejected"

(* C9: with a retry budget and the attempt index below it, a response with *)
(* a status in [300,399] is retried after the backoff delay and is not     *)
(* delivered to the caller as a success.                                   *)
C9_RedirectRetried ==
    \A r \in DOMAIN requests :
        LET req == requests[r]
        IN  \A k \in DOMAIN req.outcomes :
              ( /\ req.hasRetryCount /\ req.attempts[k] < req.retry_count
                /\ IsStatusIn(req.outcomes[k], 300, 399) )
              => /\ Retried(req, k)
                 /\ ~( req.phase = "resolved" /\ req.result = req.outcomes[k] )

(* C10: with a retry budget and the attempt index below it, a transport    *)
(* failure that carries no response is retried, as a status 0 or 5xx is.   *)
C10_NoResponseRetried ==
    \A r \in DOMAIN requests :
        LET req == requests[r]
        IN  \A k \in DOMAIN req.outcomes :
              ( /\ req.hasRetryCount /\ req.attempts[k] < req.retry_count
                /\ req.outcomes[k] = NetworkError )
              => Retried(req, k)

(* C11: when a request is rejected, because its retries are exhausted or   *)
(* its failure is not retryable, what it is rejected with is exactly the   *)
(* error or response of its last transport attempt, neither wrapped nor    *)
(* replaced by the failure of an earlier attempt.                          *)
C11_RejectionIsLastFailure ==
    \A r \in DOMAIN requests :
        LET req == requests[r]
        IN  req.phase = "rejected" =>
              /\ Len(req.outcomes) = Len(req.attempts)
              /\ req.result = req.outcomes[Len(req.outcomes)]

\* A request was rejected after a retry, with a failure other than that of
\* its first attempt
C11_Witness ==
    \E r \in DOMAIN requests :
        /\ requests[r].phase = "rejected"
        /\ Len(requests[r].outcomes) >= 2
        /\ requests[r].outcomes[1] # requests[r].outcomes[Len(requests[r].outcomes)]
        /\ requests[r].result = requests[r].outcomes[Len(requests[r].outcomes)]

\* The rejection of a request reaches the caller of get / post / put /
\* delete / form as it is
RejectionReachesCaller ==
    \A o \in DOMAIN ops :
        ops[o].pc = "rejected" =>
          /\ requests[ops[o].request].phase = "rejected"
          /\ ops[o].error = requests[ops[o].request].result

(* C12: an attempt answered with a success status (2xx) is the last        *)
(* attempt of its request: no backoff and no further attempt follow it,    *)
(* and the request resolves with the response of that attempt.             *)
C12_SuccessEndsRequest ==
    \A r \in DOMAIN requests :
        LET req == requests[r]
        IN  \A k \in DOMAIN req.outcomes :
              IsStatusIn(req.outcomes[k], 200, 299) =>
                /\ k = Len(req.outcomes)
                /\ Len(req.attempts) = k
                /\ Len(req.delays) = k - 1
                /\ req.phase = "resolved"
                /\ req.result = req.outcomes[k]

\* A request resolved with the 200 of a retry, after a failed attempt
C12_Witness ==
    \E r \in DOMAIN requests :
        /\ Len(requests[r].outcomes) >= 2
        /\ ~IsStatusIn(requests[r].outcomes[1], 200, 399)
        /\ IsStatusIn(requests[r].outcomes[Len(requests[r].outcomes)], 200, 299)
        /\ requests[r].phase = "resolved"

\* The data of a resolved request reaches the caller of get / post / put /
\* delete / form as it is
ResponseReachesCaller ==
    \A o \in DOMAIN ops :
        ( ops[o].pc = "done" /\ ~ops[o].fromCache ) =>
          /\ requests[ops[o].request].phase = "resolved"
          /\ ops[o].result = requests[ops[o].request].result.data

---------------------------------------------------------------------------
(* Properties of the request methods.                                      *)

\* The cache checks of get(): events[i] is a hit or a miss
IsCheck(i) == events[i].what \in { "hit", "miss" }

\* events[k] is the deleteCachedValue of a write to the url of invocation g
InvalidatesUrlOf(k, g) ==
    events[k].what = "invalidate" /\ ops[events[k].op].url = ops[g].url

\* events[j] is the setCachedValue of a get of the same url and params as g
StoresUrlOf(j, g) ==
    /\ events[j].what = "store"
    /\ ops[events[j].op].url = ops[g].url
    /\ ops[events[j].op].params = ops[g].params

(* C13: a get() of URL X called after a write (post, put, delete, form) to *)
(* X is never served a value that was put in the cache before that write   *)
(* invalidated it: a cache hit after the write comes from a value stored   *)
(* after it.                                                               *)
C13_NoStaleReadAfterWrite ==
    \A i \in DOMAIN events :
        events[i].what = "hit" =>
          \A k \in 1..(i - 1) :
            ( InvalidatesUrlOf(k, events[i].op) /\ events[k].op < events[i].op )
            => \E j \in (k + 1)..(i - 1) :
                  events[j].what = "store" /\ events[j].key = events[i].key

(* C14: once a get() of URL X has succeeded and stored its data with a     *)
(* ttl >= 1000 ms, a later get() of X with caching enabled that checks the *)
(* cache before the entry expires, with no write to X and no other get of  *)
(* X storing in between, returns that data from the cache and makes no     *)
(* transport call, whatever the data is.                                   *)
C14_SecondGetServedFromCache ==
    \A i \in DOMAIN events : \A j \in 1..(i - 1) :
        ( /\ IsCheck(i)
          /\ StoresUrlOf(j, events[i].op)
          /\ events[j].ttl >= MinCacheTTL
          /\ events[i].at < events[j].at + ( events[j].ttl \div 1000 ) * 1000
          /\ \A k \in (j + 1)..(i - 1) :
                ~InvalidatesUrlOf(k, events[i].op) /\ ~StoresUrlOf(k, events[i].op) )
        => /\ events[i].what = "hit"
           /\ events[i].value = events[j].value
           /\ ops[events[i].op].request = 0

\* get() stores a value only once its request has resolved, and what it
\* stores is the data of the response the request resolved with
CacheWrittenOnlyOnResolve ==
    /\ \A i \in DOMAIN events :
          events[i].what = "store" =>
            LET req == requests[ops[events[i].op].request]
            IN  /\ req.phase = "resolved"
                /\ req.result = req.outcomes[Len(req.outcomes)]
                /\ events[i].value = req.result.data
    /\ \A key \in DOMAIN storage :
          \E i \in DOMAIN events :
              /\ events[i].what = "store" /\ events[i].key = key
              /\ events[i].value = storage[key].value

(* C15: get() writes to the cache only after its request has terminally    *)
(* succeeded: every value the cache holds is the data of the last attempt  *)
(* of a resolved request, and that attempt was answered with a success     *)
(* status, never with one the retry engine counts as a failure.            *)
C15_CacheOnlyAfterSuccess ==
    /\ CacheWrittenOnlyOnResolve
    /\ \A i \in DOMAIN events :
          events[i].what = "store" =>
            IsStatusIn(requests[ops[events[i].op].request].result, 200, 299)

---------------------------------------------------------------------------
(* Properties of the cache.                                                *)

\* events[j] is the last operation made on its key
IsLastOnKey(j) ==
    \A k \in (j + 1)..Len(events) : events[k].key # events[j].key

\* The milliseconds a ttl is stored as: whole seconds
StoredTtl(ttl) == ( ttl \div 1000 ) * 1000

ShortSetStep ==
    /\ Len(events') = Len(events) + 1
    /\ events'[Len(events')].what = "set"
    /\ events'[Len(events')].ttl < MinCacheTTL

(* C17, as claimed: setCachedValue with ttl < 1000 leaves the cache as it  *)
(* was, whatever it held, and a get of that key right after it returns     *)
(* absent.                                                                 *)
C17_ShortTtlThenAbsent ==
    [][ ShortSetStep =>
          /\ storage' = storage
          /\ getCachedValue(storage', events'[Len(events')].key) = NoCollection ]_vars

(* C17, amended: setCachedValue with ttl < 1000 leaves the cache as it     *)
(* was, whatever it held, and a get of that key right after it returns     *)
(* what it returned right before: absent when the key held no live entry.  *)
C17_ShortTtlIsNoOp ==
    [][ ShortSetStep =>
          /\ storage' = storage
          /\ getCachedValue(storage', events'[Len(events')].key)
               = getCachedValue(storage, events'[Len(events')].key) ]_vars

\* setCachedValue with ttl < 1000 was just called on a key that holds a live
\* entry, and the key still returns that entry
C17_Witness ==
    /\ Len(events) >= 2
    /\ LET e == events[Len(events)]
       IN  /\ e.what = "set" /\ e.ttl < MinCacheTTL /\ e.at = now
           /\ \E j \in 1..(Len(events) - 1) :
                 /\ events[j].what = "set" /\ events[j].key = e.key
                 /\ events[j].value # e.value
                 /\ getCachedValue(storage, e.key) = events[j].value

---------------------------------------------------------------------------
(* Properties of the resolver: widening and coverage.                      *)

\* The lookups made by callers that found their service missing from the
\* collection of lookup p
Further(p) ==
    { q \in DOMAIN lookups :
        /\ ~lookups[q].aliased
        /\ calls[lookups[q].creator].joined = p }

\* A caller that finds its service missing from the collection it awaited
\* makes one discovery call, for the names of that collection plus its own
\* service, and that lookup is stored under the account key when it is made
RelookupWidens ==
    \A q \in DOMAIN lookups :
        ~lookups[q].aliased =>
          LET c == lookups[q].creator
              prev == lookups[calls[c].joined]
          IN  /\ lookups[q].network
              /\ lookups[q].accountId = calls[c].accountId
              /\ Cardinality(MadeBy(c)) <= 2
              /\ ObjectKeys(prev.value) \cup { calls[c].service_name }
                    \subseteq lookups[q].serviceList

(* C18: when callers of an account ask for a service that its map lacks,   *)
(* exactly one further discovery call is issued for the account; its       *)
(* service list contains every service of the previous map plus the new    *)
(* one, and its computation is the one stored under the account key.       *)
C18_OneWidenedLookup ==
    resets = 0 =>
      \A p \in DOMAIN lookups :
        /\ Cardinality(Further(p)) <= 1
        /\ \A q \in Further(p) :
              /\ lookups[q].network
              /\ ObjectKeys(lookups[p].value)
                    \cup { calls[lookups[q].creator].service_name }
                    \subseteq lookups[q].serviceList
              /\ ( \A q2 \in DOMAIN lookups :
                      lookups[q2].accountId = lookups[q].accountId => q2 <= q )
                 => endpointResolution[lookups[q].accountId] = q

\* The services asked for so far for an account
RequestedFor(accountId) ==
    { calls[c].service_name : c \in { d \in DOMAIN calls : calls[d].accountId = accountId } }

\* The map handed to a caller names the service the caller asked for
CallerServiceCovered ==
    \A c \in DOMAIN calls :
        calls[c].pc = "done" =>
          CollectionHasService(calls[c].result, calls[c].service_name)

(* C19: the collection handed to a caller of prepare() has an entry for    *)
(* every service of the default watch-list and for the service the caller  *)
(* asked for, and the account's current collection has one for every       *)
(* service asked for so far for the account, whatever the discovery calls  *)
(* answered.                                                               *)
C19_MapCoversRequested ==
    /\ \A c \in DOMAIN calls :
          calls[c].pc = "done" =>
            \A s \in InitialServiceList \cup { calls[c].service_name } :
                CollectionHasService(calls[c].result, s)
    /\ \A a \in DOMAIN endpointResolution :
          ( /\ lookups[endpointResolution[a]].state = "resolved"
            /\ \A c \in DOMAIN calls :
                  calls[c].accountId = a => calls[c].pc = "done" )
          => \A s \in RequestedFor(a) :
                CollectionHasService(lookups[endpointResolution[a]].value, s)

\* The accounts on whose behalf this step is made: those of the calls and
\* lookups it makes or changes
Touched ==
    { calls'[c].accountId :
        c \in { d \in DOMAIN calls' : d \notin DOMAIN calls \/ calls'[d] # calls[d] } }
      \cup
    { lookups'[p].accountId :
        p \in { q \in DOMAIN lookups' : q \notin DOMAIN lookups \/ lookups'[q] # lookups[q] } }

\* The first lookup of every account asks for the default watch-list plus
\* the service of the call that made it, and nothing else
FirstListIsOwn ==
    \A p \in DOMAIN lookups :
        lookups[p].aliased =>
          lookups[p].serviceList
            = InitialServiceList \cup { calls[lookups[p].creator].service_name }

(* C20: a step of a resolve for one account leaves, for every other        *)
(* account, its stored computation, its cached map and the service list    *)
(* its first discovery lookup will ask for as they were; that list is the  *)
(* default watch-list plus the account's own requested service only.       *)
C20_AccountsIndependent ==
    [][ /\ \A b \in AccountIds \ Touched :
              /\ b \in DOMAIN endpointResolution' <=> b \in DOMAIN endpointResolution
              /\ b \in DOMAIN endpointResolution =>
                    endpointResolution'[b] = endpointResolution[b]
              /\ getCachedValue(storage', CacheKey(b))
                    = getCachedValue(storage, CacheKey(b))
              /\ b \notin DOMAIN endpointResolution =>
                    \A s \in ServiceInputs : WatchListWith(s)' = WatchListWith(s)
        /\ FirstListIsOwn' ]_vars

\* A resolve for one account leaves the stored computation and the cached
\* map of every other account as they were
OtherAccountsKept ==
    [][ \A b \in AccountIds \ Touched :
          /\ b \in DOMAIN endpointResolution' <=> b \in DOMAIN endpointResolution
          /\ b \in DOMAIN endpointResolution =>
                endpointResolution'[b] = endpointResolution[b]
          /\ getCachedValue(storage', CacheKey(b))
                = getCachedValue(storage, CacheKey(b)) ]_vars

---------------------------------------------------------------------------
(* The request normalizer.                                                 *)

Finished == { n \in DOMAIN normalizations : normalizations[n].pc = "done" }

\* C21: normalizeRequest never modifies the descriptor passed to it, nor
\* the headers object that descriptor references: after the call every field
\* of the passed descriptor has the value it had before the call, and the
\* returned request is a separate, newly produced object.
C21_InputUntouched ==
    \A n \in Finished :
        /\ normalizations[n].inputNow = normalizations[n].input
        /\ normalizations[n].fresh

\* Where the passed object does stay as it was: a descriptor with a service
\* identity that has no accept_header or no headers object of its own
CopyLeavesInputAlone ==
    \A n \in Finished :
        LET input == normalizations[n].input
        IN  /\ HasServiceIdentity(input)
            /\ ( input.accept_header = "" \/ ~ input.headers.present )
            => /\ normalizations[n].inputNow = input
               /\ normalizations[n].fresh

\* The version segment as the claim words it
SegmentOf(version) ==
    IF version.type = "string" /\ version.s # "" THEN "/" \o version.s
    ELSE IF version.type = "number" /\ version.n > 0
    THEN "/v" \o ToString(version.n)
    ELSE ""

\* The URL of a finished normalization, with a given version segment
UrlWithSegment(n, segment) ==
    LET norm == normalizations[n]
    IN  norm.host \o ( "/" \o norm.input.service_name ) \o segment
                  \o AccountSegment(norm.config.account_id)
                  \o PathSegment(norm.config.path)

Named == { n \in Finished : normalizations[n].input.service_name # "" }

\* C22 (as worded): in the URL built for a descriptor with a service name
\* the version segment is the string itself for a non-empty string version,
\* v<N> for a positive numeric version, and is omitted when the descriptor's
\* version is 0 or absent.
C22_SegmentOfDescriptorVersion ==
    \A n \in Named :
        normalizations[n].config.url =
            UrlWithSegment(n, SegmentOf(normalizations[n].input.version))

\* The version a descriptor is normalized with: its own, or the one of the
\* global parameters when it has none
VersionInForce(n) ==
    IF normalizations[n].input.version.type # "undefined"
    THEN normalizations[n].input.version
    ELSE normalizations[n].globals.version

\* C22 (amended): the version segment is the string itself for a non-empty
\* string version, v<N> for a positive numeric version, omitted for version
\* 0; a descriptor without a version takes the version of the global
\* parameters ("v1" unless setGlobalParameters changed it), formatted by the
\* same rule.
C22_SegmentOfVersionInForce ==
    \A n \in Named :
        /\ normalizations[n].config.url = UrlWithSegment(n, SegmentOf(VersionInForce(n)))
        /\ normalizations[n].input.version = StringVersion("v2")
           => normalizations[n].config.url = UrlWithSegment(n, "/v2")
        /\ normalizations[n].input.version = NumberVersion(2)
           => normalizations[n].config.url = UrlWithSegment(n, "/v2")
        /\ normalizations[n].input.version = NumberVersion(0)
           => normalizations[n].config.url = UrlWithSegment(n, "")

\* A descriptor without a version was normalized under the built-in
\* defaults and its URL carries /v1
C22_Witness ==
    \E n \in Named :
        /\ normalizations[n].input.version = NoVersion
        /\ normalizations[n].globals.version = StringVersion("v1")
        /\ normalizations[n].config.url = UrlWithSegment(n, "/v1")

\* The descriptor asks for the bypass, or names a stack other than the
\* discovered one
Bypassing(config) ==
    /\ HasServiceIdentity(config)
    /\ \/ config.noEndpointsResolution = "true"
       \/ config.service_stack \notin { "", InsightAPI }

\* C23: when the descriptor requests discovery bypass (noEndpointsResolution)
\* or its service stack is not the dynamically discovered one,
\* normalizeRequest takes the host from the static location table, issues no
\* discovery lookup, and leaves the per-account resolution state and the
\* cache unchanged.
C23_BypassSkipsResolver ==
    [][ ( /\ Len(normalizations') = Len(normalizations) + 1
          /\ Bypassing(normalizations'[Len(normalizations')].input) )
        => LET norm == normalizations'[Len(normalizations')]
           IN  /\ norm.pc = "done"
               /\ norm.call = 0
               /\ norm.host = resolveURL(norm.config.service_stack)
               /\ norm.host \in { InsightAPIURL, GlobalAPIURL }
               /\ lookups' = lookups
               /\ calls' = calls
               /\ endpointResolution' = endpointResolution
               /\ storage' = storage ]_vars

\* A descriptor of the discovered stack that asks for the bypass has been
\* normalized, and no lookup was made
C23_Witness ==
    \E n \in Finished :
        /\ normalizations[n].input.service_name # ""
        /\ normalizations[n].input.noEndpointsResolution = "true"
        /\ normalizations[n].config.service_stack = InsightAPI
        /\ normalizations[n].host = InsightAPIURL
        /\ lookups = << >>

\* C24: a request whose descriptor lacks the information required to build
\* a concrete request (no service identity and no URL) fails with a usage
\* error before any transport call is made, and is never retried.
C24_UsageErrorBeforeTransport ==
    \A o \in DOMAIN ops :
        ( ops[o].url = "" /\ ops[o].pc # "normalize" )
        => /\ ops[o].pc = "rejected"
           /\ ops[o].request = 0

\* The normalization appended in a step, when it is a second application
Reapplied ==
    { m \in DOMAIN normalizations' \ DOMAIN normalizations :
        normalizations'[m].of # 0 }

\* C26: for a descriptor without service identity whose URL is already set,
\* normalizeRequest is idempotent: applied to its own output it returns a
\* request equal to that output, and the second application changes nothing
\* and issues no discovery call.
C26_IdempotentOnConcrete ==
    [][ \A m \in Reapplied :
           LET second == normalizations'[m]
               first == normalizations[second.of]
           IN  first.input.url # ""
               => /\ second.pc = "done"
                  /\ second.config = first.config
                  /\ second.inputNow = second.input
                  /\ lookups' = lookups
                  /\ calls' = calls
                  /\ endpointResolution' = endpointResolution
                  /\ storage' = storage ]_vars

\* Both shorthand fields were folded by the first application, and the
\* second application returned the same request
C26_Witness ==
    \E m \in Finished :
        /\ normalizations[m].of # 0
        /\ LET first == normalizations[normalizations[m].of]
           IN  /\ first.input.url # ""
               /\ first.input.accept_header # ""
               /\ first.input.response_type # ""
               /\ first.config.headers.Accept = first.input.accept_header
               /\ first.config.responseType = first.input.response_type
               /\ normalizations[m].config = first.config

---------------------------------------------------------------------------
(* Writes and cached reads.                                                *)

\* The writes that pass from normalizeRequest to axiosRequest in a step
Invalidating ==
    { o \in DOMAIN ops : /\ ops[o].method \in WriteMethods
                         /\ ops[o].pc = "normalize"
                         /\ ops'[o].pc = "request" }

\* C27: every post, put, delete and form call removes the cache entry for
\* its target URL before its transport request is sent: when the request
\* goes out the cache holds no entry that a get() of that URL stored.
C27_WriteRemovesEntryOfUrl ==
    [][ \A o \in Invalidating :
           \A j \in DOMAIN events :
              ( events[j].what = "store" /\ ops[events[j].op].url = ops[o].url )
              => events[j].key \notin DOMAIN storage' ]_vars

\* What a write does remove, before its request is made: the key that is
\* its URL
WriteDeletesKeyOfUrl ==
    [][ \A o \in Invalidating :
           /\ ops[o].url \notin DOMAIN storage'
           /\ events'[Len(events')].what = "invalidate"
           /\ events'[Len(events')].key = ops[o].url
           /\ ops'[o].request = Len(requests')
           /\ Len(requests') = Len(requests) + 1 ]_vars

\* C28: a get() with caching enabled returns from the cache only data that
\* an earlier get() of the same URL with the same query parameters fetched:
\* a response cached for URL A is never returned to a get() of another URL.
C28_HitIsOfSameUrl ==
    \A i \in DOMAIN events :
        events[i].what = "hit"
        => \E j \in 1..(i - 1) :
              /\ StoresUrlOf(j, events[i].op)
              /\ events[j].value = events[i].value

\* What a hit does return: the value last stored under the key it read,
\* which tells the query parameters apart but not the URLs
HitIsOfSameKey ==
    \A i \in DOMAIN events :
        events[i].what = "hit"
        => \E j \in 1..(i - 1) :
              /\ events[j].what = "store"
              /\ events[j].key = events[i].key
              /\ events[j].value = events[i].value
              /\ ops[events[j].op].params = ops[events[i].op].params

\* events[k] is the invalidation of a write and events[j] a later event of
\* a get of the same URL
AfterInvalidation(k, j) ==
    /\ events[k].what = "invalidate"
    /\ k < j
    /\ ops[events[j].op].method = "GET"
    /\ ops[events[j].op].url = ops[events[k].op].url

\* C29: if a get() of URL X is still in flight when a write to X is issued,
\* the response of that get() is not stored in the cache after the write's
\* invalidation; hence no get() issued after the write returns data that was
\* fetched before the write.
C29_NoStoreOfEarlierGet ==
    \A k \in DOMAIN events : \A j \in DOMAIN events :
        AfterInvalidation(k, j)
        => /\ events[j].what = "store" => events[j].op > events[k].op
           /\ ( events[j].what = "hit" /\ events[j].op > events[k].op )
              => \E i \in (k + 1)..(j - 1) :
                    /\ events[i].what = "store"
                    /\ events[i].key = events[j].key
                    /\ events[i].op > events[k].op

---------------------------------------------------------------------------
(* reset().                                                                *)

\* What reset() leaves behind: no stored resolution, an empty cache, the
\* built-in global parameters
FactoryDefaults ==
    /\ DOMAIN endpointResolution = {}
    /\ DOMAIN storage = {}
    /\ globalServiceParams = defaultServiceParams

\* The first prepare() of its account since the last reset
FirstSinceReset(c) ==
    /\ calls[c].epoch = resets
    /\ \A b \in DOMAIN calls :
          ( b < c /\ calls[b].accountId = calls[c].accountId )
          => calls[b].epoch < resets

\* C25: after reset() the client is back at factory defaults: no account
\* has a stored pending or settled resolution, the cache holds no entry, the
\* global request parameters equal the built-in defaults whatever
\* setGlobalParameters set before, and the next resolve for any account
\* issues a fresh discovery lookup.
C25_ResetRestoresFactoryDefaults ==
    [][ /\ ( resets' = resets + 1 ) => FactoryDefaults'
        /\ ( \A c \in DOMAIN calls :
               ( resets >= 1 /\ FirstSinceReset(c) ) => calls[c].fresh )' ]_vars

\* The state reset() itself leaves behind
ResetLeavesFactoryDefaults ==
    [][ ( resets' = resets + 1 ) => FactoryDefaults' ]_vars

\* The lookups that settle in a step
SettlingLookups ==
    { p \in DOMAIN lookups : lookups[p].state = "pending"
                             /\ lookups'[p].state # "pending" }

\* C30: a discovery lookup that was in flight when reset() was called does
\* not write its result into the cache after the reset: the cache stays free
\* of results of requests that were issued before the reset.
C30_NoWriteAfterReset ==
    [][ \A p \in SettlingLookups :
           lookups[p].epoch < resets => storage' = storage ]_vars

---------------------------------------------------------------------------
(* The cache-busting parameter of a retry.  generateCacheBuster is a       *)
(* random word, a hash and its argument: what is kept of it is the         *)
(* argument, the last component.  config is one object for all attempts    *)
(* of a request and the timer callback writes nothing of it but            *)
(* params.breaker.                                                         *)

\* C31: each retry attempt is sent with the caller's request unchanged
\* except for one `breaker` query parameter whose last component is the
\* attempt index (the number of the attempt counted from 0, or the
\* attemptIndex its axiosRequest invocation runs with); the first attempt
\* carries no generated breaker parameter.
C31_BreakerIsAttemptIndex ==
    \A r \in DOMAIN requests :
        LET req == requests[r]
            k == Len(req.attempts)
        IN  IF k = 1 THEN req.breaker = -1
            ELSE req.breaker \in { k - 1, req.attempts[k] }

\* What the breaker of a retry does end with: the index the failed attempt
\* ran with, plus one, which is one less than the index the retry runs with
BreakerIsIndexOfDelay ==
    \A r \in DOMAIN requests :
        LET req == requests[r]
            k == Len(req.attempts)
        IN  IF k = 1 THEN req.breaker = -1
            ELSE /\ req.breaker = req.attempts[k - 1] + 1
                 /\ req.breaker = req.attempts[k] - 1

---------------------------------------------------------------------------
(* get() without caching.                                                  *)

\* The ttl is 0, false or absent
Uncached(ttl) ==
    \/ ttl.type = "undefined"
    \/ ttl.type = "number" /\ ttl.n = 0
    \/ ttl.type = "boolean" /\ ttl.n = 0

\* The invocations that move in a step
Moving == { o \in DOMAIN ops' : o \notin DOMAIN ops \/ ops'[o] # ops[o] }

\* C32: when the ttl of a get() is 0, false or absent, the call neither
\* reads nor writes the cache: it always makes a transport call and leaves
\* the cache contents unchanged, even if an entry for that URL exists.
C32_UncachedGetBypassesCache ==
    [][ \A o \in Moving :
           ( ops'[o].method = "GET" /\ Uncached(ops'[o].ttl) )
           => /\ storage' = storage
              /\ events' = events
              /\ ~ ops'[o].fromCache
              /\ ops'[o].pc # "normalize" => ops'[o].request # 0 ]_vars

\* A get() without caching has fetched its data from the transport while
\* the cache held an entry stored by an earlier get() of the same URL
C32_Witness ==
    \E o \in DOMAIN ops : \E j \in DOMAIN events :
        /\ events[j].what = "store"
        /\ events[j].key \in DOMAIN storage
        /\ events[j].op < o
        /\ ops[events[j].op].url = ops[o].url
        /\ Uncached(ops[o].ttl)
        /\ ops[o].pc = "done"
        /\ ops[o].request # 0
        /\ ops[o].result # storage[events[j].key].value

---------------------------------------------------------------------------
(* Termination.                                                            *)

Settled(o) == o \in DOMAIN ops /\ ops[o].pc \in { "done", "rejected" }

\* C33: provided every transport call settles and every backoff timer
\* fires, every get / post / put / delete, with its endpoint resolution and
\* all of its retries, eventually resolves or rejects.
C33_EveryRequestSettles ==
    ( \E o \in DOMAIN ops : ~ Settled(o) ) ~> ( \A o \in DOMAIN ops : Settled(o) )

\* A request that waited for a discovery lookup and went through two
\* retries has settled
C33_Witness ==
    \E o \in DOMAIN ops :
        /\ Settled(o)
        /\ ops[o].request # 0
        /\ normalizations[NormalizationOf(o)].call # 0
        /\ lookups[calls[normalizations[NormalizationOf(o)].call].from].network
        /\ Len(requests[ops[o].request].attempts) >= 3

===========================================================================
